---- MODULE Spec2Model ----
(***************************************************************************)
(* A model of tao::optional<T> (include/tao/result/result.hpp) for a T     *)
(* that is not trivially copyable, movable or destructible, so that the    *)
(* hand-written bases optional_storage_base<T,false>,                      *)
(* optional_copy_base<T,false>, optional_move_base<T,false>,               *)
(* optional_copy_assign_base<T,false> and optional_move_assign_base<T,     *)
(* false> are the ones selected, and of the specialization optional<T&>.   *)
(*                                                                         *)
(* An optional<T> is a record                                              *)
(*   has_value_ : the discriminant                                         *)
(*   value_     : the T in the union, Indet while no T lives there         *)
(*   live       : ghost, TRUE while a T's lifetime runs in the union       *)
(* Every member function is an operator that yields the SET of outcomes    *)
(* the call can have: a move leaves its source in a state T chooses, and   *)
(* a read of storage that holds no T yields any value.                     *)
(***************************************************************************)
EXTENDS Integers, FiniteSets, Sequences, TLC

VARIABLES opt, ret, ref, cell, last

vars == <<opt, ret, ref, cell, last>>

\* ------------------------------------------------------------------ bounds

\* The values of T are 0..MaxVal.
MaxVal == 2

Val == 0..MaxVal

\* The values of U, the element type of the optional<U> that converting
\* construction and assignment read.
UVal == 1..(MaxVal + 1)

\* T(u) for a U u: T's converting constructor, a narrowing conversion.
T_from_U(u) == u % (MaxVal + 1)

\* The two optional<T> objects a program holds.
Obj == {"a", "b"}

Other(x) == IF x = "a" THEN "b" ELSE "a"

\* The content of the union while dummy_ is its active member.
Indet == -1

\* What T's move constructor and move assignment may leave in their source:
\* the value unchanged (a T that copies) or T's emptied state 0.
MovedFrom(v) == {v, 0}

\* ------------------------------------------------------------------ events

\* What one call did to T objects: constructor, destructor and assignment
\* calls, and the three ways a call can misuse storage.
NoEv ==
    [ctor |-> 0, dtor |-> 0, asg |-> 0,
     overwrite |-> FALSE,   \* a T constructed over a live T
     deadDtor |-> FALSE,    \* ~T() ran on storage holding no T
     deadUse |-> FALSE,     \* storage holding no T was read or assigned to
     fargs |-> <<>>,        \* the arguments the callable f was invoked with
     gcalls |-> 0]          \* invocations of the nullary callable

EvAdd(e, f) ==
    [ctor |-> e.ctor + f.ctor, dtor |-> e.dtor + f.dtor, asg |-> e.asg + f.asg,
     overwrite |-> e.overwrite \/ f.overwrite,
     deadDtor |-> e.deadDtor \/ f.deadDtor,
     deadUse |-> e.deadUse \/ f.deadUse,
     fargs |-> e.fargs \o f.fargs, gcalls |-> e.gcalls + f.gcalls]

\* --------------------------------------------------- optional_storage_base

\* optional_storage_base(): dummy_(), has_value_(false)
storage_empty == [has_value_ |-> FALSE, live |-> FALSE, value_ |-> Indet]

\* Mutant of storage_in_place: the constructor forgets has_value_(true).
storage_in_place_unflagged(v) ==
    [has_value_ |-> FALSE, live |-> TRUE, value_ |-> v]

\* optional_storage_base(in_place_t, u): value_(u), has_value_(true)
storage_in_place(v) == [has_value_ |-> TRUE, live |-> TRUE, value_ |-> v]

\* value_.~T()
DestroyT(s) ==
    [s |-> [s EXCEPT !.live = FALSE, !.value_ = Indet],
     ev |-> IF s.live THEN [NoEv EXCEPT !.dtor = 1]
                      ELSE [NoEv EXCEPT !.deadDtor = TRUE]]

\* new (std::addressof(value_)) T(v)
PlacementNew(s, v) ==
    [s |-> [s EXCEPT !.live = TRUE, !.value_ = v],
     ev |-> [NoEv EXCEPT !.ctor = 1, !.overwrite = s.live]]

\* value_ = v, T's assignment operator on the union member
AssignT(s, v) ==
    IF s.live
    THEN [s |-> [s EXCEPT !.value_ = v], ev |-> [NoEv EXCEPT !.asg = 1]]
    ELSE [s |-> s, ev |-> [NoEv EXCEPT !.deadUse = TRUE]]

\* ~optional_storage_base(): if (has_value_) { value_.~T(); has_value_ =
\* false; }
storage_destructor(s) ==
    IF s.has_value_
    THEN LET d == DestroyT(s)
         IN  [s |-> [d.s EXCEPT !.has_value_ = FALSE], ev |-> d.ev]
    ELSE [s |-> s, ev |-> NoEv]

\* operator*: the value an expression reads from s, and s after it. D is the
\* element type's value set. mv: the expression is an rvalue handed to a move
\* constructor or move assignment, which leaves its source moved-from. No
\* check of has_value_: storage holding no object reads as any value.
deref(s, mv, D) ==
    IF s.live
    THEN { [v |-> s.value_, s |-> [s EXCEPT !.value_ = m], ev |-> NoEv] :
             m \in IF mv THEN MovedFrom(s.value_) ELSE {s.value_} }
    ELSE { [v |-> g, s |-> s, ev |-> [NoEv EXCEPT !.deadUse = TRUE]] : g \in D }

\* get(): as operator*, on the optional<T> bases.
get(s, mv) == deref(s, mv, Val)

\* has_value()
has_value(s) == s.has_value_

\* ------------------------------------------------ optional_operations_base

\* hard_reset(): get().~T(); has_value_ = false
hard_reset(s) ==
    LET d == DestroyT(s)
    IN  [s |-> [d.s EXCEPT !.has_value_ = FALSE], ev |-> d.ev]

\* construct(args): placement new, then has_value_ = true
construct(s, v) ==
    LET n == PlacementNew(s, v)
    IN  [s |-> [n.s EXCEPT !.has_value_ = TRUE], ev |-> n.ev]

\* The first if of assign: the branch taken when *this has a value.
assign_held(lhs, rhs, mv) ==
    IF has_value(rhs)
    THEN { LET w == AssignT(lhs, g.v)
           IN  [lhs |-> w.s, rhs |-> g.s, ev |-> EvAdd(g.ev, w.ev)] :
             g \in get(rhs, mv) }
    ELSE { LET d == DestroyT(lhs)
           IN  [lhs |-> [d.s EXCEPT !.has_value_ = FALSE], rhs |-> rhs,
                ev |-> d.ev] }

\* The second if of assign, which no else guards: taken whenever rhs has a
\* value, whatever the first if did.
assign_construct(o, mv) ==
    IF has_value(o.rhs)
    THEN { LET c == construct(o.lhs, g.v)
           IN  [lhs |-> c.s, rhs |-> g.s, ev |-> EvAdd(o.ev, EvAdd(g.ev, c.ev))] :
             g \in get(o.rhs, mv) }
    ELSE {o}

\* assign(Opt&& rhs): the two ifs in sequence.
assign(lhs, rhs, mv) ==
    LET first == IF has_value(lhs) THEN assign_held(lhs, rhs, mv)
                 ELSE {[lhs |-> lhs, rhs |-> rhs, ev |-> NoEv]}
    IN  UNION { assign_construct(o, mv) : o \in first }

\* ------------------------------------------ optional_copy_base / move_base

\* Mutant of copy_move_ctor: the move constructor leaves its source empty.
copy_move_ctor_resets(rhs, mv) ==
    IF has_value(rhs)
    THEN { LET c == construct(storage_empty, g.v)
               r == IF mv THEN hard_reset(g.s) ELSE [s |-> g.s, ev |-> NoEv]
           IN  [s |-> c.s, rhs |-> r.s, ev |-> EvAdd(g.ev, EvAdd(c.ev, r.ev))] :
             g \in get(rhs, mv) }
    ELSE { [s |-> storage_empty, rhs |-> rhs, ev |-> NoEv] }

\* Mutant of copy_move_ctor: the copy constructor moves from its source.
copy_move_ctor_moves(rhs, mv) ==
    IF has_value(rhs)
    THEN { LET c == construct(storage_empty, g.v)
           IN  [s |-> c.s, rhs |-> g.s, ev |-> EvAdd(g.ev, c.ev)] :
             g \in get(rhs, TRUE) }
    ELSE { [s |-> storage_empty, rhs |-> rhs, ev |-> NoEv] }

\* optional_copy_base(const optional_copy_base&) and
\* optional_move_base(optional_move_base&&): the new object starts from
\* optional_storage_base() and constructs only when rhs has a value.
copy_move_ctor(rhs, mv) ==
    IF has_value(rhs)
    THEN { LET c == construct(storage_empty, g.v)
           IN  [s |-> c.s, rhs |-> g.s, ev |-> EvAdd(g.ev, c.ev)] :
             g \in get(rhs, mv) }
    ELSE { [s |-> [storage_empty EXCEPT !.has_value_ = FALSE], rhs |-> rhs,
            ev |-> NoEv] }

\* ---------------------------------------------------------------- optional

\* optional(const optional<U>&) and optional(optional<U>&&):
\* this->construct(*rhs), with no test of rhs.has_value().
converting_ctor(rhs, mv) ==
    { LET c == construct(storage_empty, T_from_U(g.v))
      IN  [s |-> c.s, rhs |-> g.s, ev |-> EvAdd(g.ev, c.ev)] :
        g \in deref(rhs, mv, UVal) }

\* operator=(nullopt_t)
assign_nullopt(s) ==
    IF has_value(s)
    THEN LET d == DestroyT(s)
         IN  [s |-> [d.s EXCEPT !.has_value_ = FALSE], ev |-> d.ev]
    ELSE [s |-> s, ev |-> NoEv]

\* Mutant of assign_value: always constructs, also over a held value.
assign_value_constructs(s, v) == construct(s, v)

\* operator=(U&& u)
assign_value(s, v) ==
    IF has_value(s) THEN AssignT(s, v) ELSE construct(s, v)

\* The first if of operator=(const optional<U>&) / operator=(optional<U>&&).
converting_assign_held(lhs, rhs, mv) ==
    IF has_value(rhs)
    THEN { LET w == AssignT(lhs, T_from_U(g.v))
           IN  [lhs |-> w.s, rhs |-> g.s, ev |-> EvAdd(g.ev, w.ev)] :
             g \in deref(rhs, mv, UVal) }
    ELSE { LET h == hard_reset(lhs)
           IN  [lhs |-> h.s, rhs |-> rhs, ev |-> h.ev] }

\* Their second if, which no else guards.
converting_assign_construct(o, mv) ==
    IF has_value(o.rhs)
    THEN { LET c == construct(o.lhs, T_from_U(g.v))
           IN  [lhs |-> c.s, rhs |-> g.s, ev |-> EvAdd(o.ev, EvAdd(g.ev, c.ev))] :
             g \in deref(o.rhs, mv, UVal) }
    ELSE {o}

\* operator=(const optional<U>&) and operator=(optional<U>&&)
converting_assign(lhs, rhs, mv) ==
    LET first == IF has_value(lhs) THEN converting_assign_held(lhs, rhs, mv)
                 ELSE {[lhs |-> lhs, rhs |-> rhs, ev |-> NoEv]}
    IN  UNION { converting_assign_construct(o, mv) : o \in first }

\* Mutant of value: the accessor does not check has_value().
value_unchecked(s) ==
    { [threw |-> FALSE, v |-> g.v, ev |-> g.ev] : g \in get(s, FALSE) }

\* value(): the held value, or throw bad_optional_access. The reference it
\* returns is read by the caller.
value(s) ==
    IF has_value(s)
    THEN { [threw |-> FALSE, v |-> g.v, ev |-> g.ev] : g \in get(s, FALSE) }
    ELSE { [threw |-> TRUE, v |-> Indet, ev |-> NoEv] }

\* Mutant of emplace: the old value is not destroyed first.
emplace_no_destroy(s, v) ==
    LET c == construct(s, v)
    IN  { [s |-> c.s, ev |-> EvAdd(c.ev, r.ev), threw |-> r.threw, v |-> r.v] :
            r \in value(c.s) }

\* emplace(args): *this = nullopt; construct(args); return value()
emplace(s, v) ==
    LET n == assign_nullopt(s)
        c == construct(n.s, v)
    IN  { [s |-> c.s, ev |-> EvAdd(n.ev, EvAdd(c.ev, r.ev)),
           threw |-> r.threw, v |-> r.v] : r \in value(c.s) }

\* Mutant of reset: the value is destroyed but has_value_ stays set.
reset_keeps_flag(s) ==
    IF has_value(s) THEN DestroyT(s) ELSE [s |-> s, ev |-> NoEv]

\* reset()
reset(s) ==
    IF has_value(s)
    THEN LET d == DestroyT(s)
         IN  [s |-> [d.s EXCEPT !.has_value_ = FALSE], ev |-> d.ev]
    ELSE [s |-> s, ev |-> NoEv]

\* std::swap(**this, *rhs): T tmp(move(a)); a = move(b); b = move(tmp)
swap_values(lhs, rhs) ==
    UNION { { LET w1 == AssignT(g1.s, g2.v)
                  w2 == AssignT(g2.s, g1.v)
              IN  [lhs |-> w1.s, rhs |-> w2.s,
                   ev |-> EvAdd(EvAdd(g1.ev, g2.ev), EvAdd(w1.ev, w2.ev))] :
                g2 \in get(rhs, TRUE) } : g1 \in get(lhs, TRUE) }

\* The one-sided branches of swap: new (&to.value_) T(std::move(from.value_));
\* from.value_.T::~T(). Neither has_value_ is written.
swap_move(from, to) ==
    { LET n == PlacementNew(to, g.v)
          d == DestroyT(g.s)
      IN  [from |-> d.s, to |-> n.s, ev |-> EvAdd(g.ev, EvAdd(n.ev, d.ev))] :
        g \in get(from, TRUE) }

\* swap(optional& rhs)
swap(lhs, rhs) ==
    IF has_value(lhs)
    THEN IF has_value(rhs)
         THEN swap_values(lhs, rhs)
         ELSE { [lhs |-> o.from, rhs |-> o.to, ev |-> o.ev] :
                  o \in swap_move(lhs, rhs) }
    ELSE IF has_value(rhs)
         THEN { [lhs |-> o.to, rhs |-> o.from, ev |-> o.ev] :
                  o \in swap_move(rhs, lhs) }
         ELSE { [lhs |-> lhs, rhs |-> rhs, ev |-> NoEv] }

\* swap(optional<T>& lhs, optional<T>& rhs): lhs.swap(rhs)
free_swap(lhs, rhs) == swap(lhs, rhs)

\* Mutant of take: the source is not reset.
take_no_reset(s, mv) ==
    { [s |-> c.rhs, ret |-> c.s, ev |-> c.ev] : c \in copy_move_ctor(s, mv) }

\* take() & (mv = FALSE: optional ret = *this) and take() && (mv = TRUE:
\* optional ret = std::move(*this)); then reset(); return ret.
take(s, mv) ==
    { LET r == reset(c.rhs)
      IN  [s |-> r.s, ret |-> c.s, ev |-> EvAdd(c.ev, r.ev)] :
        c \in copy_move_ctor(s, mv) }

\* Mutant of value_or: the rvalue overload moves the held value out.
value_or_moves(s, u, mv) ==
    IF has_value(s)
    THEN { [v |-> g.v, s |-> g.s, ev |-> g.ev] : g \in get(s, mv) }
    ELSE { [v |-> T_from_U(u), s |-> s, ev |-> NoEv] }

\* value_or(u), const & and &&: has_value() ? **this : static_cast<T>(u).
\* In both overloads **this is an lvalue, so the held value is copied.
value_or(s, u, mv) ==
    IF has_value(s)
    THEN { [v |-> g.v, s |-> g.s, ev |-> g.ev] : g \in get(s, FALSE) }
    ELSE { [v |-> T_from_U(u), s |-> s, ev |-> NoEv] }

\* make_optional(v): optional<Ret>(std::forward<U>(v))
make_optional(v) == storage_in_place(v)

\* make_optional<T>(args...): optional<T>(in_place, args...)
make_optional_in_place(v) == storage_in_place(v)

\* ------------------------------------------------------------ combinators

\* class monostate {}: the one value of the unit type.
monostate == -2

\* detail::invoke(f, v) for the value-returning callable the calls are made
\* with: a function from T to another type.
invoke_f(v) == v + 1

\* The T-call record of one invocation of f on v.
Invoked(v) == [NoEv EXCEPT !.fargs = <<v>>]

\* Mutant of map: f is invoked without testing has_value().
map_untested(s, mv, void) ==
    { [s |-> g.s,
       ret |-> make_optional(IF void THEN monostate ELSE invoke_f(g.v)),
       ev |-> EvAdd(g.ev, Invoked(g.v))] : g \in get(s, mv) }

\* map(f) -> optional_map_impl(*this or std::move(*this), f):
\* opt.has_value() ? invoke(f, *opt) : optional<Ret>(nullopt), and for a
\* void f: invoke(f, *opt); return make_optional(monostate{}).
map(s, mv, void) ==
    IF has_value(s)
    THEN { [s |-> g.s,
            ret |-> make_optional(IF void THEN monostate ELSE invoke_f(g.v)),
            ev |-> EvAdd(g.ev, Invoked(g.v))] : g \in get(s, mv) }
    ELSE { [s |-> s, ret |-> storage_empty, ev |-> NoEv] }

\* detail::invoke(f, v) for the optional-returning callable and_then is
\* called with: empty for the even values, holding f(v) for the odd ones.
invoke_f_optional(v) ==
    IF v % 2 = 0 THEN storage_empty ELSE make_optional(invoke_f(v))

\* Mutant of and_then: the result of f is wrapped as map wraps it.
and_then_wraps(s, mv) ==
    IF has_value(s)
    THEN { [s |-> g.s, ret |-> make_optional(invoke_f_optional(g.v)),
            ev |-> EvAdd(g.ev, Invoked(g.v))] : g \in get(s, mv) }
    ELSE { [s |-> s, ret |-> storage_empty, ev |-> NoEv] }

\* and_then(f): has_value() ? invoke(f, **this) : result(nullopt)
and_then(s, mv) ==
    IF has_value(s)
    THEN { [s |-> g.s, ret |-> invoke_f_optional(g.v),
            ev |-> EvAdd(g.ev, Invoked(g.v))] : g \in get(s, mv) }
    ELSE { [s |-> s, ret |-> storage_empty, ev |-> NoEv] }

\* The T-call record of one invocation of the nullary callable.
InvokedNullary == [NoEv EXCEPT !.gcalls = 1]

\* Mutant of or_else: f is invoked before has_value() is tested.
or_else_eager(s, mv, void, fr) ==
    IF has_value(s)
    THEN { [s |-> c.rhs, ret |-> c.s, ev |-> EvAdd(InvokedNullary, c.ev)] :
             c \in copy_move_ctor(s, mv) }
    ELSE { [s |-> s, ret |-> IF void THEN storage_empty ELSE fr,
            ev |-> InvokedNullary] }

\* or_else(f), f returning fr or void:
\*   void:  if (has_value()) return *this; f(); return nullopt;
\*   else:  return has_value() ? *this : f();
\* with std::move(*this) for *this in the && overloads.
or_else(s, mv, void, fr) ==
    IF has_value(s)
    THEN { [s |-> c.rhs, ret |-> c.s, ev |-> c.ev] :
             c \in copy_move_ctor(s, mv) }
    ELSE { [s |-> s, ret |-> IF void THEN storage_empty ELSE fr,
            ev |-> InvokedNullary] }

\* map_or(f, u): has_value() ? invoke(f, **this) : std::forward<U>(u)
map_or(s, mv, u) ==
    IF has_value(s)
    THEN { [s |-> g.s, v |-> invoke_f(g.v), ev |-> EvAdd(g.ev, Invoked(g.v))] :
             g \in get(s, mv) }
    ELSE { [s |-> s, v |-> u, ev |-> NoEv] }

\* Mutant of map_or_else: the default callable is invoked in both branches.
map_or_else_both(s, mv, ur) ==
    IF has_value(s)
    THEN { [s |-> g.s, v |-> invoke_f(g.v),
            ev |-> EvAdd(EvAdd(g.ev, Invoked(g.v)), InvokedNullary)] :
             g \in get(s, mv) }
    ELSE { [s |-> s, v |-> ur, ev |-> InvokedNullary] }

\* map_or_else(f, u), u returning ur:
\* has_value() ? invoke(f, **this) : std::forward<U>(u)()
map_or_else(s, mv, ur) ==
    IF has_value(s)
    THEN { [s |-> g.s, v |-> invoke_f(g.v), ev |-> EvAdd(g.ev, Invoked(g.v))] :
             g \in get(s, mv) }
    ELSE { [s |-> s, v |-> ur, ev |-> InvokedNullary] }

\* Mutant of conjunction: the test of has_value() is inverted.
conjunction_inverted(s, u) ==
    IF has_value(s) THEN storage_empty ELSE storage_in_place(u)

\* conjunction(u): has_value() ? result{u} : result{nullopt}
conjunction(s, u) ==
    IF has_value(s) THEN storage_in_place(u) ELSE storage_empty

\* Mutant of disjunction: rhs is returned whenever it has a value.
disjunction_prefers_rhs(lhs, rhs, mv, mv_rhs) ==
    IF has_value(lhs) /\ ~has_value(rhs)
    THEN { [lhs |-> c.rhs, rhs |-> rhs, ret |-> c.s, ev |-> c.ev] :
             c \in copy_move_ctor(lhs, mv) }
    ELSE { [lhs |-> lhs, rhs |-> c.rhs, ret |-> c.s, ev |-> c.ev] :
             c \in copy_move_ctor(rhs, mv_rhs) }

\* disjunction(rhs): has_value() ? *this : rhs, with std::move(*this) in
\* the && overloads and std::move(rhs) in the optional&& overloads; the
\* chosen operand is copied or moved into the result.
disjunction(lhs, rhs, mv, mv_rhs) ==
    IF has_value(lhs)
    THEN { [lhs |-> c.rhs, rhs |-> rhs, ret |-> c.s, ev |-> c.ev] :
             c \in copy_move_ctor(lhs, mv) }
    ELSE { [lhs |-> lhs, rhs |-> c.rhs, ret |-> c.s, ev |-> c.ev] :
             c \in copy_move_ctor(rhs, mv_rhs) }

\* ------------------------------------------------------ relational operators

\* *lhs on a const optional: the values the read can give.
Star(s) == { g.v : g \in get(s, FALSE) }

\* Mutant of operator==: only the held values are compared.
operator_eq_values(lhs, rhs) ==
    { a = b : a \in Star(lhs), b \in Star(rhs) }

\* operator==: lhs.has_value() == rhs.has_value() &&
\*             (!lhs.has_value() || *lhs == *rhs)
operator_eq(lhs, rhs) ==
    IF has_value(lhs) # has_value(rhs) THEN {FALSE}
    ELSE IF ~has_value(lhs) THEN {TRUE}
    ELSE { a = b : a \in Star(lhs), b \in Star(rhs) }

\* operator!=: lhs.has_value() != rhs.has_value() ||
\*             (lhs.has_value() && *lhs != *rhs)
operator_ne(lhs, rhs) ==
    IF has_value(lhs) # has_value(rhs) THEN {TRUE}
    ELSE IF ~has_value(lhs) THEN {FALSE}
    ELSE { a # b : a \in Star(lhs), b \in Star(rhs) }

\* Mutant of operator<: an empty lhs is not less than a holding rhs.
operator_lt_holding(lhs, rhs) ==
    IF ~has_value(rhs) \/ ~has_value(lhs) THEN {FALSE}
    ELSE { a < b : a \in Star(lhs), b \in Star(rhs) }

\* Mutant of operator<: the roles of lhs and rhs are exchanged in the
\* has_value() tests.
operator_lt_exchanged(lhs, rhs) ==
    IF ~has_value(lhs) THEN {FALSE}
    ELSE IF ~has_value(rhs) THEN {TRUE}
    ELSE { a < b : a \in Star(lhs), b \in Star(rhs) }

\* operator<: rhs.has_value() && (!lhs.has_value() || *lhs < *rhs)
operator_lt(lhs, rhs) ==
    IF ~has_value(rhs) THEN {FALSE}
    ELSE IF ~has_value(lhs) THEN {TRUE}
    ELSE { a < b : a \in Star(lhs), b \in Star(rhs) }

\* Mutant of operator>: a holding lhs is not greater than an empty rhs.
operator_gt_holding(lhs, rhs) ==
    IF ~has_value(lhs) \/ ~has_value(rhs) THEN {FALSE}
    ELSE { a > b : a \in Star(lhs), b \in Star(rhs) }

\* operator>: lhs.has_value() && (!rhs.has_value() || *lhs > *rhs)
operator_gt(lhs, rhs) ==
    IF ~has_value(lhs) THEN {FALSE}
    ELSE IF ~has_value(rhs) THEN {TRUE}
    ELSE { a > b : a \in Star(lhs), b \in Star(rhs) }

\* operator<=: !lhs.has_value() || (rhs.has_value() && *lhs <= *rhs)
operator_le(lhs, rhs) ==
    IF ~has_value(lhs) THEN {TRUE}
    ELSE IF ~has_value(rhs) THEN {FALSE}
    ELSE { a <= b : a \in Star(lhs), b \in Star(rhs) }

\* operator>=: !rhs.has_value() || (lhs.has_value() && *lhs >= *rhs)
operator_ge(lhs, rhs) ==
    IF ~has_value(rhs) THEN {TRUE}
    ELSE IF ~has_value(lhs) THEN {FALSE}
    ELSE { a >= b : a \in Star(lhs), b \in Star(rhs) }

\* The six relational operators, by name.
RelOps == {"==", "!=", "<", "<=", ">", ">="}

\* lhs k rhs for two optionals.
relop(k, lhs, rhs) ==
    CASE k = "==" -> operator_eq(lhs, rhs)
      [] k = "!=" -> operator_ne(lhs, rhs)
      [] k = "<"  -> operator_lt(lhs, rhs)
      [] k = "<=" -> operator_le(lhs, rhs)
      [] k = ">"  -> operator_gt(lhs, rhs)
      [] k = ">=" -> operator_ge(lhs, rhs)

\* Mutant of relop_nullopt: nullopt is never less than an optional.
relop_nullopt_never_less(k, nullopt_left, s) ==
    IF nullopt_left
    THEN CASE k = "==" -> ~has_value(s)
           [] k = "!=" -> has_value(s)
           [] k = "<"  -> FALSE
           [] k = "<=" -> TRUE
           [] k = ">"  -> FALSE
           [] k = ">=" -> ~has_value(s)
    ELSE CASE k = "==" -> ~has_value(s)
           [] k = "!=" -> has_value(s)
           [] k = "<"  -> FALSE
           [] k = "<=" -> ~has_value(s)
           [] k = ">"  -> has_value(s)
           [] k = ">=" -> TRUE

\* The comparisons with nullopt: nullopt k s when nullopt_left, else
\* s k nullopt. Each returns a constant or a test of has_value().
relop_nullopt(k, nullopt_left, s) ==
    IF nullopt_left
    THEN CASE k = "==" -> ~has_value(s)
           [] k = "!=" -> has_value(s)
           [] k = "<"  -> has_value(s)
           [] k = "<=" -> TRUE
           [] k = ">"  -> FALSE
           [] k = ">=" -> ~has_value(s)
    ELSE CASE k = "==" -> ~has_value(s)
           [] k = "!=" -> has_value(s)
           [] k = "<"  -> FALSE
           [] k = "<=" -> ~has_value(s)
           [] k = ">"  -> has_value(s)
           [] k = ">=" -> TRUE

\* T's relational operators: those of the integers.
T_relop(k, a, b) ==
    CASE k = "==" -> a = b
      [] k = "!=" -> a # b
      [] k = "<"  -> a < b
      [] k = "<=" -> a <= b
      [] k = ">"  -> a > b
      [] k = ">=" -> a >= b

\* Mutant of relop_value: every comparison with an empty optional is false.
relop_value_empty_false(k, value_left, s, u) ==
    IF has_value(s)
    THEN { IF value_left THEN T_relop(k, u, a) ELSE T_relop(k, a, u) :
             a \in Star(s) }
    ELSE { FALSE }

\* The comparisons with a bare value: u k s when value_left, else s k u.
\*   s k u:  lhs.has_value() ? *lhs k rhs : (true for !=, <, <=)
\*   u k s:  rhs.has_value() ? lhs k *rhs : (true for !=, >, >=)
relop_value(k, value_left, s, u) ==
    IF has_value(s)
    THEN { IF value_left THEN T_relop(k, u, a) ELSE T_relop(k, a, u) :
             a \in Star(s) }
    ELSE IF value_left THEN { k \in {"!=", ">", ">="} }
    ELSE { k \in {"!=", "<", "<="} }

\* ------------------------------------------------------------ optional<T&>

\* The lvalues an optional<T&> can be bound to.
Cells == {"i", "j"}

\* optional() and optional(nullopt_t): value_(nullptr)
ref_empty == [value_ |-> "nullptr"]

\* has_value(): value_ != nullptr
ref_has_value(r) == r.value_ # "nullptr"

\* Mutant of ref_assign_lvalue: a bound optional is not rebound.
ref_assign_lvalue_keeps(r, c) ==
    IF ref_has_value(r) THEN r ELSE [r EXCEPT !.value_ = c]

\* operator=(U&& u): value_ = std::addressof(u)
ref_assign_lvalue(r, c) == [r EXCEPT !.value_ = c]

\* operator=(nullopt_t): value_ = nullptr
ref_assign_nullopt(r) == [r EXCEPT !.value_ = "nullptr"]

\* reset(): value_ = nullptr
ref_reset(r) == [r EXCEPT !.value_ = "nullptr"]

\* value(): *value_, or throw bad_optional_access. The result names the
\* referent.
ref_value(r) ==
    IF ref_has_value(r)
    THEN [threw |-> FALSE, v |-> r.value_]
    ELSE [threw |-> TRUE, v |-> "nullptr"]

\* take(): optional ret = *this; reset(); return ret
ref_take(r) == [r |-> ref_reset(r), ret |-> r]

\* *r = v: operator*() returns *value_, and the write goes to that lvalue.
\* With value_ == nullptr the write is undefined: it may hit any lvalue or
\* none. The result is the set of lvalue contents afterwards.
ref_write(r, cells, v) ==
    IF ref_has_value(r)
    THEN { [cells EXCEPT ![r.value_] = v] }
    ELSE {cells} \cup { [cells EXCEPT ![c] = v] : c \in Cells }

\* The optional<U> arguments of the converting assignment to optional<T&>:
\* empty, or bound to one of the lvalues.
RefSrc == {ref_empty} \cup { [value_ |-> c] : c \in Cells }

\* operator=(const optional<U>& rhs): value_ = std::addressof(rhs.value()).
\* rhs.value() throws on an empty rhs, before value_ is written.
ref_converting_assign(r, rhs) ==
    LET v == ref_value(rhs)
    IN  IF v.threw THEN [r |-> r, threw |-> TRUE]
        ELSE [r |-> [r EXCEPT !.value_ = v.v], threw |-> FALSE]

\* ------------------------------------------------- deleted special members

\* A special member function is defaulted (TRUE) or deleted (FALSE).
\* optional_delete_ctor_base<T, EnableCopy, EnableMove>: the primary
\* template and its three specializations.
optional_delete_ctor_base(EnableCopy, EnableMove) ==
    CASE EnableCopy /\ EnableMove ->
           [copy_ctor |-> TRUE, move_ctor |-> TRUE,
            copy_assign |-> TRUE, move_assign |-> TRUE]
      [] EnableCopy /\ ~EnableMove ->
           [copy_ctor |-> TRUE, move_ctor |-> FALSE,
            copy_assign |-> TRUE, move_assign |-> TRUE]
      [] ~EnableCopy /\ EnableMove ->
           [copy_ctor |-> FALSE, move_ctor |-> TRUE,
            copy_assign |-> TRUE, move_assign |-> TRUE]
      [] ~EnableCopy /\ ~EnableMove ->
           [copy_ctor |-> FALSE, move_ctor |-> FALSE,
            copy_assign |-> TRUE, move_assign |-> TRUE]

\* Mutant of optional_delete_assign_base: the move assignment is never
\* deleted.
optional_delete_assign_base_copy_only(EnableCopy, EnableMove) ==
    [copy_ctor |-> TRUE, move_ctor |-> TRUE,
     copy_assign |-> EnableCopy, move_assign |-> TRUE]

\* optional_delete_assign_base<T, EnableCopy, EnableMove>: the primary
\* template and its three specializations.
optional_delete_assign_base(EnableCopy, EnableMove) ==
    CASE EnableCopy /\ EnableMove ->
           [copy_ctor |-> TRUE, move_ctor |-> TRUE,
            copy_assign |-> TRUE, move_assign |-> TRUE]
      [] EnableCopy /\ ~EnableMove ->
           [copy_ctor |-> TRUE, move_ctor |-> TRUE,
            copy_assign |-> TRUE, move_assign |-> FALSE]
      [] ~EnableCopy /\ EnableMove ->
           [copy_ctor |-> TRUE, move_ctor |-> TRUE,
            copy_assign |-> FALSE, move_assign |-> TRUE]
      [] ~EnableCopy /\ ~EnableMove ->
           [copy_ctor |-> TRUE, move_ctor |-> TRUE,
            copy_assign |-> FALSE, move_assign |-> FALSE]

\* What T can do: std::is_copy_constructible, is_move_constructible,
\* is_copy_assignable, is_move_assignable.
Traits ==
    [copy_constructible : BOOLEAN, move_constructible : BOOLEAN,
     copy_assignable : BOOLEAN, move_assignable : BOOLEAN]

\* class optional : optional_move_assign_base<T>,
\*                  optional_delete_ctor_base<T>,
\*                  optional_delete_assign_base<T>
\* with the default template arguments of the two delete bases. Its four
\* special members are defaulted, so each is deleted exactly when a base
\* deletes it; optional_move_assign_base and its bases delete none.
optional_special_members(tr) ==
    LET c == optional_delete_ctor_base(tr.copy_constructible,
                                       tr.move_constructible)
        a == optional_delete_assign_base(
                 tr.copy_constructible /\ tr.copy_assignable,
                 tr.move_constructible /\ tr.move_assignable)
    IN  [copy_ctor |-> c.copy_ctor /\ a.copy_ctor,
         move_ctor |-> c.move_ctor /\ a.move_ctor,
         copy_assign |-> c.copy_assign /\ a.copy_assign,
         move_assign |-> c.move_assign /\ a.move_assign]

\* ------------------------------------------------------------------- state

\* The optional<U> arguments of converting construction and assignment.
USrc == {storage_empty} \cup { storage_in_place(u) : u \in UVal }

\* The record of the last call: op on object x (again: the call before was
\* the same op on the same object), the objects before it (pre, preRef), its
\* value argument arg, its optional<U> argument rhsU, mv for an rvalue
\* overload, what it did to T objects (ev), whether it threw, and the value
\* it returned (val).
Log(op, x, arg, rhsU, mv, ev, threw, val) ==
    last' = [op |-> op, x |-> x, again |-> (last.op = op /\ last.x = x),
             pre |-> opt, preRef |-> ref, arg |-> arg, rhsU |-> rhsU,
             mv |-> mv, ev |-> ev, threw |-> threw, val |-> val]

\* The calls after which ret is the named copy r of optional<T> r(x): the
\* copy construction and the calls made on r since.
CopyChain == {"ctor_copy", "ret_reset", "ret_emplace", "ret_assign_value"}

\* ret after a call on x that returns no optional: the copy r stays in scope
\* and is not touched; any other temporary is gone.
KeepRet == IF last.op \in CopyChain THEN ret ELSE <<>>

\* What the nullary callable given to or_else returns: any optional<T>.
FRet == {storage_empty} \cup { make_optional(v) : v \in Val }

Init ==
    /\ opt = [x \in Obj |-> storage_empty]
    /\ ret = <<>>
    /\ ref = ref_empty
    /\ cell = [c \in Cells |-> 0]
    /\ last = [op |-> "init", x |-> "-", again |-> FALSE,
               pre |-> [x \in Obj |-> storage_empty], preRef |-> ref_empty,
               arg |-> Indet, rhsU |-> storage_empty, mv |-> FALSE,
               ev |-> NoEv, threw |-> FALSE, val |-> Indet]

\* ------------------------------------------------- actions: instantiation

\* optional<T> is instantiated for a T with the capabilities tr (logged as
\* arg); val is which special members it has.
Instantiate ==
    \E tr \in Traits :
        /\ ret' = <<>>
        /\ Log("instantiate", "-", tr, storage_empty, FALSE, NoEv, FALSE,
               optional_special_members(tr))
        /\ UNCHANGED <<opt, ref, cell>>

\* ------------------------------------------------- actions: construction

\* optional<T> r;
CtorDefault ==
    /\ ret' = <<storage_empty>>
    /\ Log("ctor_default", "-", Indet, storage_empty, FALSE, NoEv, FALSE, Indet)
    /\ UNCHANGED <<opt, ref, cell>>

\* optional<T> r(nullopt);
CtorNullopt ==
    /\ ret' = <<storage_empty>>
    /\ Log("ctor_nullopt", "-", Indet, storage_empty, FALSE, NoEv, FALSE, Indet)
    /\ UNCHANGED <<opt, ref, cell>>

\* optional<T> r(v);
CtorValue ==
    \E v \in Val :
        /\ ret' = <<storage_in_place(v)>>
        /\ Log("ctor_value", "-", v, storage_empty, FALSE,
               [NoEv EXCEPT !.ctor = 1], FALSE, Indet)
        /\ UNCHANGED <<opt, ref, cell>>

\* optional<T> r(in_place, v);
CtorInPlace ==
    \E v \in Val :
        /\ ret' = <<storage_in_place(v)>>
        /\ Log("ctor_in_place", "-", v, storage_empty, FALSE,
               [NoEv EXCEPT !.ctor = 1], FALSE, Indet)
        /\ UNCHANGED <<opt, ref, cell>>

\* auto r = make_optional(v);
MakeOptional ==
    \E v \in Val :
        /\ ret' = <<make_optional(v)>>
        /\ Log("make_optional", "-", v, storage_empty, FALSE,
               [NoEv EXCEPT !.ctor = 1], FALSE, Indet)
        /\ UNCHANGED <<opt, ref, cell>>

\* auto r = make_optional<T>(v);
MakeOptionalInPlace ==
    \E v \in Val :
        /\ ret' = <<make_optional_in_place(v)>>
        /\ Log("make_optional_in_place", "-", v, storage_empty, FALSE,
               [NoEv EXCEPT !.ctor = 1], FALSE, Indet)
        /\ UNCHANGED <<opt, ref, cell>>

\* optional<T> r(x);
CtorCopy ==
    \E x \in Obj : \E o \in copy_move_ctor(opt[x], FALSE) :
        /\ ret' = <<o.s>>
        /\ opt' = [opt EXCEPT ![x] = o.rhs]
        /\ Log("ctor_copy", x, Indet, storage_empty, FALSE, o.ev, FALSE, Indet)
        /\ UNCHANGED <<ref, cell>>

\* optional<T> r(std::move(x));
CtorMove ==
    \E x \in Obj : \E o \in copy_move_ctor(opt[x], TRUE) :
        /\ ret' = <<o.s>>
        /\ opt' = [opt EXCEPT ![x] = o.rhs]
        /\ Log("ctor_move", x, Indet, storage_empty, TRUE, o.ev, FALSE, Indet)
        /\ UNCHANGED <<ref, cell>>

\* optional<T> r(u); for an optional<U> u, and r(std::move(u))
CtorConverting ==
    \E u \in USrc, mv \in BOOLEAN : \E o \in converting_ctor(u, mv) :
        /\ ret' = <<o.s>>
        /\ Log("ctor_converting", "-", Indet, u, mv, o.ev, FALSE, Indet)
        /\ UNCHANGED <<opt, ref, cell>>

\* --------------------------------------------------- actions: optional<T>

\* x = nullopt;
AssignNullopt ==
    \E x \in Obj :
        LET o == assign_nullopt(opt[x])
        IN  /\ opt' = [opt EXCEPT ![x] = o.s]
            /\ ret' = KeepRet
            /\ Log("assign_nullopt", x, Indet, storage_empty, FALSE, o.ev,
                   FALSE, Indet)
            /\ UNCHANGED <<ref, cell>>

\* x = v;
AssignValue ==
    \E x \in Obj, v \in Val :
        LET o == assign_value(opt[x], v)
        IN  /\ opt' = [opt EXCEPT ![x] = o.s]
            /\ ret' = KeepRet
            /\ Log("assign_value", x, v, storage_empty, FALSE, o.ev, FALSE,
                   Indet)
            /\ UNCHANGED <<ref, cell>>

\* x = y; (optional_copy_assign_base::operator=: this->assign(rhs)) and
\* x = std::move(y); (optional_move_assign_base::operator=:
\* this->assign(std::move(rhs)))
Assign ==
    \E x \in Obj, mv \in BOOLEAN : \E o \in assign(opt[x], opt[Other(x)], mv) :
        /\ opt' = [opt EXCEPT ![x] = o.lhs, ![Other(x)] = o.rhs]
        /\ ret' = <<>>
        /\ Log("assign", x, Indet, storage_empty, mv, o.ev, FALSE, Indet)
        /\ UNCHANGED <<ref, cell>>

\* x = u; and x = std::move(u); for an optional<U> u
ConvertingAssign ==
    \E x \in Obj, u \in USrc, mv \in BOOLEAN :
        \E o \in converting_assign(opt[x], u, mv) :
            /\ opt' = [opt EXCEPT ![x] = o.lhs]
            /\ ret' = <<>>
            /\ Log("converting_assign", x, Indet, u, mv, o.ev, FALSE, Indet)
            /\ UNCHANGED <<ref, cell>>

\* x.emplace(v);
Emplace ==
    \E x \in Obj, v \in Val : \E o \in emplace(opt[x], v) :
        /\ opt' = [opt EXCEPT ![x] = o.s]
        /\ ret' = KeepRet
        /\ Log("emplace", x, v, storage_empty, FALSE, o.ev, o.threw, o.v)
        /\ UNCHANGED <<ref, cell>>

\* x.reset();
Reset ==
    \E x \in Obj :
        LET o == reset(opt[x])
        IN  /\ opt' = [opt EXCEPT ![x] = o.s]
            /\ ret' = KeepRet
            /\ Log("reset", x, Indet, storage_empty, FALSE, o.ev, FALSE, Indet)
            /\ UNCHANGED <<ref, cell>>

\* x.swap(y);
Swap ==
    \E x \in Obj : \E o \in swap(opt[x], opt[Other(x)]) :
        /\ opt' = [opt EXCEPT ![x] = o.lhs, ![Other(x)] = o.rhs]
        /\ ret' = <<>>
        /\ Log("swap", x, Indet, storage_empty, FALSE, o.ev, FALSE, Indet)
        /\ UNCHANGED <<ref, cell>>

\* swap(x, y);
FreeSwap ==
    \E x \in Obj : \E o \in free_swap(opt[x], opt[Other(x)]) :
        /\ opt' = [opt EXCEPT ![x] = o.lhs, ![Other(x)] = o.rhs]
        /\ ret' = <<>>
        /\ Log("free_swap", x, Indet, storage_empty, FALSE, o.ev, FALSE, Indet)
        /\ UNCHANGED <<ref, cell>>

\* auto r = x.take(); and auto r = std::move(x).take();
Take ==
    \E x \in Obj, mv \in BOOLEAN : \E o \in take(opt[x], mv) :
        /\ opt' = [opt EXCEPT ![x] = o.s]
        /\ ret' = <<o.ret>>
        /\ Log("take", x, Indet, storage_empty, mv, o.ev, FALSE, Indet)
        /\ UNCHANGED <<ref, cell>>

\* x.value(), inside a try block
Value ==
    \E x \in Obj : \E o \in value(opt[x]) :
        /\ ret' = <<>>
        /\ Log("value", x, Indet, storage_empty, FALSE, o.ev, o.threw, o.v)
        /\ UNCHANGED <<opt, ref, cell>>

\* x.value_or(u) and std::move(x).value_or(u)
ValueOr ==
    \E x \in Obj, u \in UVal, mv \in BOOLEAN : \E o \in value_or(opt[x], u, mv) :
        /\ opt' = [opt EXCEPT ![x] = o.s]
        /\ ret' = <<>>
        /\ Log("value_or", x, u, storage_empty, mv, o.ev, FALSE, o.v)
        /\ UNCHANGED <<ref, cell>>

\* x.map(f) and std::move(x).map(f), for a value-returning and a void f
Map ==
    \E x \in Obj, mv \in BOOLEAN, void \in BOOLEAN :
      \E o \in map(opt[x], mv, void) :
        /\ opt' = [opt EXCEPT ![x] = o.s]
        /\ ret' = <<o.ret>>
        /\ Log(IF void THEN "map_void" ELSE "map", x, Indet, storage_empty, mv,
               o.ev, FALSE, Indet)
        /\ UNCHANGED <<ref, cell>>

\* x.and_then(f) and std::move(x).and_then(f), f returning an optional
AndThen ==
    \E x \in Obj, mv \in BOOLEAN : \E o \in and_then(opt[x], mv) :
        /\ opt' = [opt EXCEPT ![x] = o.s]
        /\ ret' = <<o.ret>>
        /\ Log("and_then", x, Indet, storage_empty, mv, o.ev, FALSE, Indet)
        /\ UNCHANGED <<ref, cell>>

\* x.or_else(f) and std::move(x).or_else(f), for f returning the optional
\* fr (logged as rhsU) and for a void f
OrElse ==
    \E x \in Obj, mv \in BOOLEAN, void \in BOOLEAN :
      \E fr \in IF void THEN {storage_empty} ELSE FRet :
        \E o \in or_else(opt[x], mv, void, fr) :
          /\ opt' = [opt EXCEPT ![x] = o.s]
          /\ ret' = <<o.ret>>
          /\ Log(IF void THEN "or_else_void" ELSE "or_else", x, Indet, fr, mv,
                 o.ev, FALSE, Indet)
          /\ UNCHANGED <<ref, cell>>

\* x.map_or(f, u) and std::move(x).map_or(f, u)
MapOr ==
    \E x \in Obj, mv \in BOOLEAN, u \in UVal : \E o \in map_or(opt[x], mv, u) :
        /\ opt' = [opt EXCEPT ![x] = o.s]
        /\ ret' = <<>>
        /\ Log("map_or", x, u, storage_empty, mv, o.ev, FALSE, o.v)
        /\ UNCHANGED <<ref, cell>>

\* x.map_or_else(f, u) and std::move(x).map_or_else(f, u), u returning ur
MapOrElse ==
    \E x \in Obj, mv \in BOOLEAN, ur \in UVal :
      \E o \in map_or_else(opt[x], mv, ur) :
        /\ opt' = [opt EXCEPT ![x] = o.s]
        /\ ret' = <<>>
        /\ Log("map_or_else", x, ur, storage_empty, mv, o.ev, FALSE, o.v)
        /\ UNCHANGED <<ref, cell>>

\* The six comparisons of x (lhs) with the other optional (rhs); their
\* results are logged as val.
Compare ==
    \E x \in Obj :
      \E eq \in operator_eq(opt[x], opt[Other(x)]),
         ne \in operator_ne(opt[x], opt[Other(x)]),
         lt \in operator_lt(opt[x], opt[Other(x)]),
         gt \in operator_gt(opt[x], opt[Other(x)]),
         le \in operator_le(opt[x], opt[Other(x)]),
         ge \in operator_ge(opt[x], opt[Other(x)]) :
        /\ ret' = <<>>
        /\ Log("compare", x, Indet, storage_empty, FALSE, NoEv, FALSE,
               [eq |-> eq, ne |-> ne, lt |-> lt, gt |-> gt, le |-> le,
                ge |-> ge])
        /\ UNCHANGED <<opt, ref, cell>>

\* The comparisons that relate a = x, b = the other optional and a third
\* optional c (logged as rhsU): the relations of a and b in both
\* directions, and b < c, a < c.
CompareOrder ==
    \E x \in Obj, c \in FRet :
      \E eq \in operator_eq(opt[x], opt[Other(x)]),
         lt \in operator_lt(opt[x], opt[Other(x)]),
         gt \in operator_gt(opt[x], opt[Other(x)]),
         le \in operator_le(opt[x], opt[Other(x)]),
         ge \in operator_ge(opt[x], opt[Other(x)]),
         rlt \in operator_lt(opt[Other(x)], opt[x]),
         bc \in operator_lt(opt[Other(x)], c),
         ac \in operator_lt(opt[x], c) :
        /\ ret' = <<>>
        /\ Log("compare_order", x, Indet, c, FALSE, NoEv, FALSE,
               [eq |-> eq, lt |-> lt, gt |-> gt, le |-> le, ge |-> ge,
                rlt |-> rlt, bc |-> bc, ac |-> ac])
        /\ UNCHANGED <<opt, ref, cell>>

\* x k nullopt and nullopt k x (mv logs nullopt on the left); val is the
\* operator and its result.
CompareNullopt ==
    \E x \in Obj, k \in RelOps, nullopt_left \in BOOLEAN :
        /\ ret' = <<>>
        /\ Log("compare_nullopt", x, Indet, storage_empty, nullopt_left, NoEv,
               FALSE, [k |-> k, r |-> relop_nullopt(k, nullopt_left, opt[x])])
        /\ UNCHANGED <<opt, ref, cell>>

\* x k u and u k x (mv logs the bare value on the left); val is the
\* operator and its result.
CompareValue ==
    \E x \in Obj, k \in RelOps, value_left \in BOOLEAN, u \in Val :
      \E r \in relop_value(k, value_left, opt[x], u) :
        /\ ret' = <<>>
        /\ Log("compare_value", x, u, storage_empty, value_left, NoEv, FALSE,
               [k |-> k, r |-> r])
        /\ UNCHANGED <<opt, ref, cell>>

\* x.conjunction(u)
Conjunction ==
    \E x \in Obj, u \in UVal :
        /\ ret' = <<conjunction(opt[x], u)>>
        /\ Log("conjunction", x, u, storage_empty, FALSE, NoEv, FALSE, Indet)
        /\ UNCHANGED <<opt, ref, cell>>

\* x.disjunction(y) and std::move(x).disjunction(y), and the same with
\* std::move(y), for the other optional y
Disjunction ==
    \E x \in Obj, mv \in BOOLEAN, mv_rhs \in BOOLEAN :
      \E o \in disjunction(opt[x], opt[Other(x)], mv, mv_rhs) :
        /\ opt' = [opt EXCEPT ![x] = o.lhs, ![Other(x)] = o.rhs]
        /\ ret' = <<o.ret>>
        /\ Log(IF mv_rhs THEN "disjunction_rv" ELSE "disjunction", x, Indet,
               storage_empty, mv, o.ev, FALSE, Indet)
        /\ UNCHANGED <<ref, cell>>

\* optional<T> r(x); ... r.reset();  The source x stays in last.x.
RetReset ==
    /\ last.op \in CopyChain
    /\ LET o == reset(ret[1])
       IN  /\ ret' = <<o.s>>
           /\ Log("ret_reset", last.x, Indet, storage_empty, FALSE, o.ev, FALSE,
                  Indet)
    /\ UNCHANGED <<opt, ref, cell>>

\* optional<T> r(x); ... r.emplace(v);
RetEmplace ==
    /\ last.op \in CopyChain
    /\ \E v \in Val : \E o \in emplace(ret[1], v) :
           /\ ret' = <<o.s>>
           /\ Log("ret_emplace", last.x, v, storage_empty, FALSE, o.ev, o.threw,
                  o.v)
    /\ UNCHANGED <<opt, ref, cell>>

\* optional<T> r(x); ... r = v;
RetAssignValue ==
    /\ last.op \in CopyChain
    /\ \E v \in Val :
           LET o == assign_value(ret[1], v)
           IN  /\ ret' = <<o.s>>
               /\ Log("ret_assign_value", last.x, v, storage_empty, FALSE, o.ev,
                      FALSE, Indet)
    /\ UNCHANGED <<opt, ref, cell>>

\* -------------------------------------------------- actions: optional<T&>

\* r = c; for an lvalue c
RefAssignLvalue ==
    \E c \in Cells :
        /\ ref' = ref_assign_lvalue(ref, c)
        /\ ret' = <<>>
        /\ Log("ref_assign_lvalue", "r", c, storage_empty, FALSE, NoEv,
               FALSE, Indet)
        /\ UNCHANGED <<opt, cell>>

\* r = nullopt;
RefAssignNullopt ==
    /\ ref' = ref_assign_nullopt(ref)
    /\ ret' = <<>>
    /\ Log("ref_assign_nullopt", "r", Indet, storage_empty, FALSE, NoEv, FALSE,
           Indet)
    /\ UNCHANGED <<opt, cell>>

\* r.reset();
RefReset ==
    /\ ref' = ref_reset(ref)
    /\ ret' = <<>>
    /\ Log("ref_reset", "r", Indet, storage_empty, FALSE, NoEv, FALSE, Indet)
    /\ UNCHANGED <<opt, cell>>

\* auto t = r.take();
RefTake ==
    LET o == ref_take(ref)
    IN  /\ ref' = o.r
        /\ ret' = <<o.ret>>
        /\ Log("ref_take", "r", Indet, storage_empty, FALSE, NoEv, FALSE, Indet)
        /\ UNCHANGED <<opt, cell>>

\* r.value(), inside a try block
RefValue ==
    LET o == ref_value(ref)
    IN  /\ ret' = <<>>
        /\ Log("ref_value", "r", Indet, storage_empty, FALSE, NoEv, o.threw, o.v)
        /\ UNCHANGED <<opt, ref, cell>>

\* *r = v;
RefWrite ==
    \E v \in Val : \E cs \in ref_write(ref, cell, v) :
        /\ cell' = cs
        /\ ret' = <<>>
        /\ Log("ref_write", "r", v, storage_empty, FALSE, NoEv, FALSE, Indet)
        /\ UNCHANGED <<opt, ref>>

\* r = rhs; for an optional<U> rhs (arg logs what rhs is bound to), inside a
\* try block
RefConvertingAssign ==
    \E rhs \in RefSrc :
        LET o == ref_converting_assign(ref, rhs)
        IN  /\ ref' = o.r
            /\ ret' = <<>>
            /\ Log("ref_converting_assign", "r", rhs.value_, storage_empty,
                   FALSE, NoEv, o.threw, Indet)
            /\ UNCHANGED <<opt, cell>>

\* The scope of the optionals ends: the destructor runs on each of them.
\* val is the number of T objects still alive in their storage afterwards.
\* The next scope declares them again, empty.
Destroy ==
    LET d == [x \in Obj |-> storage_destructor(opt[x])]
    IN  /\ opt' = [x \in Obj |-> storage_empty]
        /\ ret' = <<>>
        /\ Log("destroy", "-", Indet, storage_empty, FALSE,
               EvAdd(d["a"].ev, d["b"].ev), FALSE,
               Cardinality({ x \in Obj : d[x].s.live }))
        /\ UNCHANGED <<ref, cell>>

\* ----------------------------------------------------------- specification

Next ==
    \/ Instantiate
    \/ CtorDefault
    \/ CtorNullopt
    \/ CtorValue
    \/ CtorInPlace
    \/ MakeOptional
    \/ MakeOptionalInPlace
    \/ CtorCopy
    \/ CtorMove
    \/ CtorConverting
    \/ AssignNullopt
    \/ AssignValue
    \/ Assign
    \/ ConvertingAssign
    \/ Emplace
    \/ Reset
    \/ Swap
    \/ FreeSwap
    \/ Take
    \/ Value
    \/ Destroy
    \/ RetReset
    \/ RetEmplace
    \/ RetAssignValue
    \/ RefAssignLvalue
    \/ RefAssignNullopt
    \/ RefReset
    \/ RefTake
    \/ RefValue

Spec == Init /\ [][Next]_vars

\* The observers and combinators are checked on a specification of their
\* own: value assignment, reset and swap produce every state of two
\* optionals (holding each value, empty, and what swap leaves), and the
\* calls are applied there.
NextCombinators ==
    \/ AssignValue
    \/ Reset
    \/ Swap
    \/ ValueOr
    \/ Map
    \/ AndThen
    \/ OrElse
    \/ MapOr
    \/ MapOrElse
    \/ Conjunction
    \/ Disjunction

SpecCombinators == Init /\ [][NextCombinators]_vars

\* optional<T&> with the lvalues it is bound to.
NextRef ==
    \/ RefAssignLvalue
    \/ RefAssignNullopt
    \/ RefReset
    \/ RefTake
    \/ RefValue
    \/ RefWrite
    \/ RefConvertingAssign

SpecRef == Init /\ [][NextRef]_vars

\* The relational operators, on the same states.
NextRelops ==
    \/ AssignValue
    \/ Reset
    \/ Swap
    \/ Compare
    \/ CompareOrder
    \/ CompareNullopt
    \/ CompareValue

SpecRelops == Init /\ [][NextRelops]_vars

\* ------------------------------------------------------------------ claims

\* The two states of the data model: Holding(T) and Empty.
Holding(s) == s.has_value_ /\ s.live

Holds(s, v) == Holding(s) /\ s.value_ = v

Empty(s) == ~s.has_value_ /\ ~s.live

\* The storage holds a live T if and only if the discriminant is set.
WellFormed(s) == s.live <=> s.has_value_

\* The object the last call was made on, the other object, and both before
\* the call.
LastX == opt[last.x]

LastY == opt[Other(last.x)]

PreX == last.pre[last.x]

PreY == last.pre[Other(last.x)]

\* C1: in every reachable state, every optional<T>'s storage contains a
\* live T if and only if its has_value_ is true. Violated: swap with exactly
\* one side holding moves the T and writes neither has_value_.
C1_StorageIffDiscriminant ==
    /\ \A x \in Obj : WellFormed(opt[x])
    /\ \A k \in 1..Len(ret) : last.op # "ref_take" => WellFormed(ret[k])

\* C2: a.swap(b) (member or free): neither holds => nothing changes; both
\* hold => the values are exchanged and both still hold; exactly one holds v
\* => afterwards the other reports has_value() with value v and the former
\* holder reports no value. Violated in the one-sided case.
C2_SwapMatrix ==
    (last.op \in {"swap", "free_swap"} /\ WellFormed(PreX) /\ WellFormed(PreY)) =>
        /\ (Empty(PreX) /\ Empty(PreY)) => opt = last.pre
        /\ (Holding(PreX) /\ Holding(PreY)) =>
               Holds(LastX, PreY.value_) /\ Holds(LastY, PreX.value_)
        /\ (Holding(PreX) /\ Empty(PreY)) =>
               /\ has_value(LastY) /\ LastY.value_ = PreX.value_
               /\ ~has_value(LastX)
        /\ (Empty(PreX) /\ Holding(PreY)) =>
               /\ has_value(LastX) /\ LastX.value_ = PreY.value_
               /\ ~has_value(LastY)

\* C3: the converting copy / move constructor from an optional<U> yields an
\* empty optional<T> when the source is empty and one holding T(u) when the
\* source holds u. Violated for the empty source: construct(*rhs) runs
\* unconditionally.
C3_ConvertingCtor ==
    last.op = "ctor_converting" =>
        /\ Empty(last.rhsU) => ~has_value(ret[1])
        /\ Holding(last.rhsU) => Holds(ret[1], T_from_U(last.rhsU.value_))

\* C4: after a = b (copy or move) a.has_value() is what b.has_value() was, a
\* holds b's prior value when b held one, a's old value is destroyed when b
\* was empty, nothing changes when both were empty, and copy assignment
\* leaves b unchanged. Violated by move assignment with both holding: the
\* unguarded second construct() reads the moved-from b.
C4_AssignMatrix ==
    (last.op = "assign" /\ WellFormed(PreX) /\ WellFormed(PreY)) =>
        /\ has_value(LastX) = has_value(PreY)
        /\ Holding(PreY) => Holds(LastX, PreY.value_)
        /\ (Holding(PreX) /\ Empty(PreY)) => (Empty(LastX) /\ last.ev.dtor = 1)
        /\ (Empty(PreX) /\ Empty(PreY)) => opt = last.pre
        /\ ~last.mv => LastY = PreY

\* C5: when both sides hold values, assignment from another optional (same
\* type or converting, copy or move) only assigns through: one T assignment,
\* no T constructed in the destination, no T destroyed. Violated: construct()
\* runs after the assign-through.
C5_AssignThroughOnly ==
    /\ (last.op = "assign" /\ Holding(PreX) /\ Holding(PreY)) =>
           (last.ev.asg = 1 /\ last.ev.ctor = 0 /\ last.ev.dtor = 0)
    /\ (last.op = "converting_assign" /\ Holding(PreX) /\ Holding(last.rhsU)) =>
           (last.ev.asg = 1 /\ last.ev.ctor = 0 /\ last.ev.dtor = 0)

\* C6: value() on an optional that reports no value throws
\* bad_optional_access and leaves the optional unchanged; on a holding
\* optional it returns the held value and throws nothing; for optional<T>
\* and for optional<T&>, where the value returned is the referent.
C6_ValueChecked ==
    /\ last.op = "value" =>
           /\ opt = last.pre
           /\ ~has_value(PreX) => last.threw
           /\ Holding(PreX) => (~last.threw /\ last.val = PreX.value_)
    /\ last.op = "ref_value" =>
           /\ ref = last.preRef
           /\ ~ref_has_value(last.preRef) => last.threw
           /\ ref_has_value(last.preRef) =>
                  (~last.threw /\ last.val = last.preRef.value_)

\* Witness of C6: value() has just thrown on an optional<T> emptied by
\* reset, nullopt assignment or take, or never filled.
C6_Witness ==
    last.op = "value" /\ last.threw /\ Empty(PreX) /\ Holding(LastY)

\* C7: a default- or nullopt-constructed optional reports no value; one
\* constructed from v (value constructor, in-place constructor, either
\* make_optional) reports has_value() and value() returns v without
\* throwing.
C7_Constructors ==
    /\ last.op \in {"ctor_default", "ctor_nullopt"} => ~has_value(ret[1])
    /\ last.op \in {"ctor_value", "ctor_in_place", "make_optional",
                    "make_optional_in_place"} =>
           /\ has_value(ret[1])
           /\ \A r \in value(ret[1]) : ~r.threw /\ r.v = last.arg

\* Witness of C7: an optional has just been constructed from the value
\* MaxVal.
C7_Witness ==
    last.op = "ctor_value" /\ last.arg = MaxVal /\ Holding(ret[1])

\* C8: r = opt.take() returns opt's state before the call (empty if it was
\* empty, holding v if it held v), leaves opt with has_value() false, and a
\* second take() in a row returns an empty optional.
C8_Take ==
    last.op = "take" =>
        /\ ~has_value(LastX)
        /\ Empty(PreX) => Empty(ret[1])
        /\ Holding(PreX) => (Holds(ret[1], PreX.value_) /\ Empty(LastX))
        /\ last.again => ~has_value(ret[1])

\* Witness of C8: take() has just returned the value a holding optional
\* held.
C8_Witness ==
    last.op = "take" /\ Holding(PreX) /\ Holding(ret[1]) /\ Empty(LastX)

\* C9: emplace(v) leaves any optional holding T(v); a value held before is
\* destroyed, once, before the new one is constructed (never constructed
\* over); the reference returned denotes the new value; nothing is thrown.
C9_Emplace ==
    last.op = "emplace" =>
        /\ Holds(LastX, last.arg)
        /\ ~last.threw /\ last.val = last.arg
        /\ last.ev.ctor = 1
        /\ Holding(PreX) => (last.ev.dtor = 1 /\ ~last.ev.overwrite)
        /\ Empty(PreX) => (last.ev.dtor = 0 /\ ~last.ev.overwrite)

\* Witness of C9: emplace has just replaced a held value by another.
C9_Witness ==
    /\ last.op = "emplace" /\ Holding(PreX) /\ PreX.value_ # last.arg
    /\ Holds(LastX, last.arg)

\* C10: reset() leaves the optional reporting no value, destroying a held
\* value exactly once; on an empty optional, and as the second reset() in a
\* row, it changes nothing; it never throws; and opt = nullopt has the
\* effect of reset() on every optional.
C10_Reset ==
    /\ last.op = "reset" =>
           /\ ~has_value(LastX) /\ ~last.threw
           /\ Holding(PreX) =>
                  (Empty(LastX) /\ last.ev = [NoEv EXCEPT !.dtor = 1])
           /\ Empty(PreX) => (opt = last.pre /\ last.ev = NoEv)
           /\ last.again => (opt = last.pre /\ last.ev = NoEv)
    /\ \A x \in Obj : assign_nullopt(opt[x]) = reset(opt[x])
    /\ last.op = "assign_nullopt" =>
           (LET r == reset(PreX)
            IN  LastX = r.s /\ last.ev = r.ev /\ ~last.threw)

\* Witness of C10: the second of two reset() calls in a row, the first of
\* which destroyed a value.
C10_Witness ==
    last.op = "reset" /\ last.again /\ Empty(LastX) /\ Holding(LastY)


C12_CopyIndependent ==
    [][ /\ last'.op = "ctor_copy" =>
               /\ opt' = opt
               /\ Empty(opt[last'.x]) => Empty(ret'[1])
               /\ Holding(opt[last'.x]) =>
                      Holds(ret'[1], opt[last'.x].value_)
        /\ last'.op \in {"ret_reset", "ret_emplace", "ret_assign_value"} =>
               opt' = opt
        /\ (/\ last.op \in CopyChain
            /\ last'.op \in {"reset", "emplace", "assign_value",
                             "assign_nullopt"}) =>
               ret' = ret
      ]_vars

\* Witness of C12: after r.emplace(v) the copy r holds a value other than
\* the one its source still holds.
C12_Witness ==
    /\ last.op = "ret_emplace" /\ last.x \in Obj
    /\ Holding(opt[last.x]) /\ Holding(ret[1])
    /\ ret[1].value_ # opt[last.x].value_


\* C13: x.value_or(d) returns the held value whatever d is when x holds a
\* value, returns d converted to T when x is empty, does not throw, and
\* leaves every optional as it was.
C13_ValueOr ==
    last.op = "value_or" =>
        /\ ~last.threw
        /\ opt = last.pre
        /\ Holding(PreX) => last.val = PreX.value_
        /\ Empty(PreX) => last.val = T_from_U(last.arg)

\* Witness of C13: the rvalue overload on a holding optional, with a default
\* that converts to another value than the held one.
C13_Witness ==
    /\ last.op = "value_or" /\ last.mv /\ Holding(PreX)
    /\ T_from_U(last.arg) # PreX.value_ /\ PreX.value_ # 0
    /\ last.val = PreX.value_


\* C14: x.map(f). On an empty x, f is not invoked and the result is empty;
\* on x holding v, f is invoked exactly once, with v, and the result holds
\* f(v), or monostate when f returns void; the lvalue forms leave x holding
\* or empty as it was.
C14_Map ==
    last.op \in {"map", "map_void"} =>
        /\ Empty(PreX) => last.ev.fargs = <<>> /\ Empty(ret[1])
        /\ Holding(PreX) =>
               /\ last.ev.fargs = <<PreX.value_>>
               /\ Holds(ret[1], IF last.op = "map" THEN invoke_f(PreX.value_)
                                ELSE monostate)
        /\ ~last.mv =>
               /\ has_value(LastX) = has_value(PreX)
               /\ Holding(PreX) => Holding(LastX)
               /\ Empty(PreX) => Empty(LastX)

\* Witness of C14: an lvalue map with a value-returning f on a holding x.
C14_Witness ==
    /\ last.op = "map" /\ ~last.mv /\ Holding(PreX)
    /\ last.ev.fargs = <<PreX.value_>>
    /\ Holds(ret[1], invoke_f(PreX.value_)) /\ Holding(LastX)


\* C15: x.and_then(f) for f returning an optional. On x holding v the result
\* is f(v) itself, empty when f(v) is empty and not wrapped again, and f is
\* invoked exactly once; on an empty x the result is empty and f is not
\* invoked.
C15_AndThen ==
    last.op = "and_then" =>
        /\ Holding(PreX) =>
               /\ ret[1] = invoke_f_optional(PreX.value_)
               /\ last.ev.fargs = <<PreX.value_>>
        /\ Empty(PreX) => Empty(ret[1]) /\ last.ev.fargs = <<>>

\* Witness of C15: x holds a value that f maps to an empty optional.
C15_Witness ==
    /\ last.op = "and_then" /\ Holding(PreX)
    /\ invoke_f_optional(PreX.value_) = storage_empty
    /\ Empty(ret[1]) /\ last.ev.fargs = <<PreX.value_>>


\* C16: x.or_else(f). When x holds a value the result holds the same value
\* and f is not invoked; when x is empty f is invoked exactly once and the
\* result is the optional f returned, or empty when f returns void; the
\* lvalue forms leave x unchanged.
C16_OrElse ==
    last.op \in {"or_else", "or_else_void"} =>
        /\ Holding(PreX) =>
               Holds(ret[1], PreX.value_) /\ last.ev.gcalls = 0
        /\ Empty(PreX) =>
               /\ last.ev.gcalls = 1
               /\ last.op = "or_else" => ret[1] = last.rhsU
               /\ last.op = "or_else_void" => Empty(ret[1])
        /\ ~last.mv => opt = last.pre

\* Witness of C16: an empty x and an f that returns a holding optional.
C16_Witness ==
    /\ last.op = "or_else" /\ Empty(PreX) /\ Holding(last.rhsU)
    /\ ret[1] = last.rhsU /\ last.ev.gcalls = 1


\* C17: x.map_or(f, d) returns f(v) when x holds v and d when x is empty,
\* without invoking f on an empty x; x.map_or_else(f, g) returns f(v) when
\* x holds v and g() when x is empty, invoking exactly one of f and g, once;
\* both return the plain value, not an optional.
C17_MapOr ==
    /\ last.op = "map_or" =>
           /\ Holding(PreX) =>
                  /\ last.val = invoke_f(PreX.value_)
                  /\ last.ev.fargs = <<PreX.value_>>
           /\ Empty(PreX) => last.val = last.arg /\ last.ev.fargs = <<>>
    /\ last.op = "map_or_else" =>
           /\ Holding(PreX) =>
                  /\ last.val = invoke_f(PreX.value_)
                  /\ last.ev.fargs = <<PreX.value_>> /\ last.ev.gcalls = 0
           /\ Empty(PreX) =>
                  /\ last.val = last.arg
                  /\ last.ev.fargs = <<>> /\ last.ev.gcalls = 1
    /\ last.op \in {"map_or", "map_or_else"} => ret = <<>> /\ last.val \in UVal

\* Witness of C17: map_or_else on a holding x returns f(v), which differs
\* from what the default callable would have returned.
C17_Witness ==
    /\ last.op = "map_or_else" /\ Holding(PreX)
    /\ last.val = invoke_f(PreX.value_) /\ last.val # last.arg
    /\ last.ev.gcalls = 0


\* One of the two states of the data model.
DataModel(s) == Holding(s) \/ Empty(s)

\* C18: lhs == rhs is true if and only if both are empty or both hold values
\* that compare equal, so an empty and a holding optional are not equal; and
\* lhs != rhs is the negation of lhs == rhs.
C18_Equality ==
    (last.op = "compare" /\ DataModel(PreX) /\ DataModel(PreY)) =>
        /\ last.val.eq <=>
               \/ Empty(PreX) /\ Empty(PreY)
               \/ Holding(PreX) /\ Holding(PreY) /\ PreX.value_ = PreY.value_
        /\ last.val.ne <=> ~last.val.eq

\* Witness of C18: an empty and a holding optional were compared.
C18_Witness ==
    /\ last.op = "compare" /\ Empty(PreX) /\ Holding(PreY)
    /\ ~last.val.eq /\ last.val.ne

C21_TotalOrder ==
    (last.op = "compare_order" /\ DataModel(PreX) /\ DataModel(PreY)) =>
        /\ \/ last.val.lt /\ ~last.val.eq /\ ~last.val.rlt
           \/ ~last.val.lt /\ last.val.eq /\ ~last.val.rlt
           \/ ~last.val.lt /\ ~last.val.eq /\ last.val.rlt
        /\ last.val.gt <=> last.val.rlt
        /\ last.val.le <=> ~last.val.rlt
        /\ last.val.ge <=> ~last.val.lt
        /\ (last.val.lt /\ last.val.bc) => last.val.ac

\* Witness of C21: three holding optionals in a chain a < b < c.
C21_Witness ==
    /\ last.op = "compare_order"
    /\ Holding(PreX) /\ Holding(PreY) /\ Holding(last.rhsU)
    /\ last.val.lt /\ last.val.bc /\ last.val.ac
    /\ ~last.val.gt /\ last.val.le /\ ~last.val.ge


\* C22: every comparison of an optional with nullopt, on either side,
\* returns what the same comparison returns with an empty optional<T> in
\* nullopt's place; opt == nullopt is true if and only if opt is empty.
C22_CompareNullopt ==
    last.op = "compare_nullopt" =>
        /\ last.mv =>
               relop(last.val.k, storage_empty, PreX) = {last.val.r}
        /\ ~last.mv =>
               relop(last.val.k, PreX, storage_empty) = {last.val.r}
        /\ (last.val.k = "==" /\ DataModel(PreX)) =>
               (last.val.r <=> Empty(PreX))

\* Witness of C22: nullopt < x for a holding x.
C22_Witness ==
    /\ last.op = "compare_nullopt" /\ last.mv /\ last.val.k = "<"
    /\ Holding(PreX) /\ last.val.r


\* C23: every comparison of an optional with a bare value u, on either side,
\* returns what the same comparison returns with an optional holding u in
\* u's place; an empty optional is not equal to u and is less than u.
C23_CompareValue ==
    (last.op = "compare_value" /\ DataModel(PreX)) =>
        /\ last.mv =>
               relop(last.val.k, make_optional(last.arg), PreX) = {last.val.r}
        /\ ~last.mv =>
               relop(last.val.k, PreX, make_optional(last.arg)) = {last.val.r}
        /\ (Empty(PreX) /\ ~last.mv /\ last.val.k = "==") => ~last.val.r
        /\ (Empty(PreX) /\ ~last.mv /\ last.val.k = "<") => last.val.r

\* Witness of C23: an empty x is less than T's least value.
C23_Witness ==
    /\ last.op = "compare_value" /\ ~last.mv /\ last.val.k = "<"
    /\ Empty(PreX) /\ last.arg = 0 /\ last.val.r


\* C24: a.conjunction(u) returns an optional holding u when a holds a value
\* and an empty optional when a is empty; a is left unchanged.
C24_Conjunction ==
    last.op = "conjunction" =>
        /\ Holding(PreX) => Holds(ret[1], last.arg)
        /\ Empty(PreX) => Empty(ret[1])
        /\ opt = last.pre

\* Witness of C24: a holds a value other than u and the result holds u.
C24_Witness ==
    /\ last.op = "conjunction" /\ Holding(PreX) /\ PreX.value_ # last.arg
    /\ Holds(ret[1], last.arg)

\* C25: a.disjunction(b) returns an optional holding a's value when a holds
\* one, whatever b is, and an optional equal to b when a is empty; the
\* result is empty if and only if a and b are both empty.
C25_Disjunction ==
    last.op \in {"disjunction", "disjunction_rv"} =>
        /\ Holding(PreX) => Holds(ret[1], PreX.value_)
        /\ (Empty(PreX) /\ Holding(PreY)) => Holds(ret[1], PreY.value_)
        /\ (Empty(PreX) /\ Empty(PreY)) => Empty(ret[1])
        /\ (DataModel(PreX) /\ DataModel(PreY)) =>
               (Empty(ret[1]) <=> Empty(PreX) /\ Empty(PreY))

\* Witness of C25: a and b hold different values and the result holds a's.
C25_Witness ==
    /\ last.op = "disjunction" /\ Holding(PreX) /\ Holding(PreY)
    /\ PreX.value_ # PreY.value_ /\ Holds(ret[1], PreX.value_)


\* C26: for optional<T&>, assigning the lvalue j rebinds the optional to j
\* and writes neither i nor j; a later write through *o changes the lvalue
\* the optional is bound to and no other.
C26_Rebind ==
    [][ /\ last'.op = "ref_assign_lvalue" =>
               ref'.value_ = last'.arg /\ cell' = cell
        /\ (last'.op = "ref_write" /\ ref_has_value(ref)) =>
               /\ ref' = ref
               /\ cell' = [cell EXCEPT ![ref.value_] = last'.arg]
      ]_vars

\* Witness of C26: an optional bound to i was assigned j while i and j held
\* different values, and is now bound to j.
C26_Witness ==
    /\ last.op = "ref_assign_lvalue" /\ last.preRef.value_ = "i"
    /\ last.arg = "j" /\ ref.value_ = "j"
    /\ cell["i"] # cell["j"]

\* C27: the converting assignment to an optional<T&> from an optional<U>
\* rebinds to rhs's referee when rhs has one, leaves the optional empty when
\* rhs is empty, and does not throw. Violated: with an empty rhs,
\* rhs.value() throws and the optional keeps its binding.
C27_RefConvertingAssign ==
    last.op = "ref_converting_assign" =>
        /\ ~last.threw
        /\ last.arg \in Cells => ref.value_ = last.arg
        /\ last.arg = "nullptr" => ~ref_has_value(ref)


\* C28: for every combination of T's capabilities, optional<T> has a copy
\* constructor iff T is copy-constructible, a move constructor iff T is
\* move-constructible, a copy assignment iff T is copy-constructible and
\* copy-assignable, and a move assignment iff T is move-constructible and
\* move-assignable; what is missing is a deleted member.
C28_SpecialMembers ==
    last.op = "instantiate" =>
        /\ last.val.copy_ctor <=> last.arg.copy_constructible
        /\ last.val.move_ctor <=> last.arg.move_constructible
        /\ last.val.copy_assign <=>
               last.arg.copy_constructible /\ last.arg.copy_assignable
        /\ last.val.move_assign <=>
               last.arg.move_constructible /\ last.arg.move_assignable

\* Witness of C28: a T that can be moved but not copied, and constructed
\* but not assigned; optional<T> has the move constructor only.
C28_Witness ==
    /\ last.op = "instantiate"
    /\ last.arg = [copy_constructible |-> FALSE, move_constructible |-> TRUE,
                   copy_assignable |-> FALSE, move_assignable |-> FALSE]
    /\ last.val = [copy_ctor |-> FALSE, move_ctor |-> TRUE,
                   copy_assign |-> FALSE, move_assign |-> FALSE]


\* C29: over any sequence of calls that ends with the destruction of every
\* optional, each T constructed in an optional's storage is destroyed
\* exactly once: no call destroys storage that holds no T, no call
\* constructs a T over a live one, and no T is alive after the destructors.
\* Violated: after swap with exactly one side holding, one destructor runs
\* ~T() on dead storage and the other leaves its T alive.
C29_DestroyedOnce ==
    /\ ~last.ev.deadDtor
    /\ ~last.ev.overwrite
    /\ last.op = "destroy" => last.val = 0


\* C30: move construction from x, and move assignment from y, leave the
\* source's has_value() as it was: a holding source still holds a value
\* (the moved-from one) and an empty source stays empty.
C30_MoveKeepsDiscriminant ==
    /\ last.op = "ctor_move" =>
           /\ has_value(LastX) = has_value(PreX)
           /\ Holding(PreX) =>
                  Holding(LastX) /\ LastX.value_ \in MovedFrom(PreX.value_)
           /\ Empty(PreX) => Empty(LastX)
    /\ (last.op = "assign" /\ last.mv) =>
           /\ has_value(LastY) = has_value(PreY)
           /\ Holding(PreY) =>
                  Holding(LastY) /\ LastY.value_ \in MovedFrom(PreY.value_)
           /\ Empty(PreY) => Empty(LastY)

\* Witness of C30: after a move assignment the source holds a moved-from
\* value that differs from the value it held.
C30_Witness ==
    /\ last.op = "assign" /\ last.mv /\ Holding(PreY)
    /\ Holding(LastY) /\ LastY.value_ # PreY.value_

====
